---------------------------- MODULE Spec2Model ----------------------------
(***************************************************************************)
(* Model of categorize_games.py: the rule-based multi-label classifier     *)
(* get_game_categories and the batch pass update_games_with_categories     *)
(* that rewrites assets/data/games.json with it.                           *)
(*                                                                         *)
(* A Python str is modelled as the sequence of its characters (one-letter  *)
(* TLA+ strings), so that lower(), the `in` substring test and the string  *)
(* order used by sorted() are computed, not assumed.  A Python set is a    *)
(* TLA+ set, a list a sequence, a dict a function on its keys.             *)
(***************************************************************************)
EXTENDS Integers, Sequences, FiniteSets

VARIABLES
    file,      \* contents of assets/data/games.json: [meta |-> ..., games |-> <<dict, ...>>]
    loaded,    \* the games of the file as json.load read them at the start of the last run
    calls,     \* the calls of get_game_categories made by the last run, in order
    runs       \* number of completed runs of the script

vars == <<file, loaded, calls, runs>>

----------------------------------------------------------------------------
(* Bounds of the model *)

\* longest title, in words of Words
MaxWords == 2

\* how many times the script is run on its own output
MaxRuns == 3

----------------------------------------------------------------------------
(* Python str: code points, lower(), `in`, and the order of sorted() *)

\* the printable ASCII characters with code points 32..95, in code point order
Ascii32 ==
    <<" ","!","\"","#","$","%","&","'","(",")","*","+",",","-",".","/",
      "0","1","2","3","4","5","6","7","8","9",":",";","<","=",">","?",
      "@","A","B","C","D","E","F","G","H","I","J","K","L","M","N","O",
      "P","Q","R","S","T","U","V","W","X","Y","Z","[","\\","]","^","_">>

\* the printable ASCII characters with code points 97..126, in code point order
\* (code point 96, the grave accent, cannot be written in a TLA+ string)
Ascii97 ==
    <<"a","b","c","d","e","f","g","h","i","j","k","l","m","n","o",
      "p","q","r","s","t","u","v","w","x","y","z","{","|","}","~">>

Char == { Ascii32[i] : i \in 1..Len(Ascii32) } \cup { Ascii97[i] : i \in 1..Len(Ascii97) }

\* ord(c): the code point of a character
ord ==
    [ c \in Char |->
        IF \E i \in 1..Len(Ascii32) : Ascii32[i] = c
        THEN 31 + CHOOSE i \in 1..Len(Ascii32) : Ascii32[i] = c
        ELSE 96 + CHOOSE i \in 1..Len(Ascii97) : Ascii97[i] = c ]

\* chr(n) for a printable code point other than 96
chr(n) == IF n <= 95 THEN Ascii32[n - 31] ELSE Ascii97[n - 96]

\* str.lower() on one character: 'A'..'Z' (65..90) move up by 32, the rest stay
lower_char == [ c \in Char |-> IF ord[c] >= 65 /\ ord[c] <= 90 THEN chr(ord[c] + 32) ELSE c ]

\* str.lower()
lower(s) == [ i \in 1..Len(s) |-> lower_char[s[i]] ]

\* `word in s`: word occurs in s as a contiguous substring ('' occurs in every s)
in(word, s) ==
    \/ word = <<>>
    \/ \E i \in 1..(Len(s) - Len(word) + 1) :
          /\ s[i] = word[1]
          /\ \A j \in 2..Len(word) : s[i + j - 1] = word[j]

\* any(word in s for word in words)
any_in(words, s) == \E word \in words : in(word, s)

\* a < b on str: the first differing code point decides, a proper prefix is smaller
str_less(a, b) ==
    \E i \in 1..(Len(a) + 1) :
        /\ i <= Len(b)
        /\ \A j \in 1..(i - 1) : a[j] = b[j]
        /\ \/ i = Len(a) + 1
           \/ i <= Len(a) /\ ord[a[i]] < ord[b[i]]

\* a slip: the result listed in descending order
RECURSIVE sorted_descending(_)
sorted_descending(s) ==
    IF s = {} THEN <<>>
    ELSE LET greatest == CHOOSE x \in s : \A y \in s \ {x} : str_less(y, x)
         IN  <<greatest>> \o sorted_descending(s \ {greatest})

\* sorted(list(s)) for a set of str
RECURSIVE sorted(_)
sorted(s) ==
    IF s = {} THEN <<>>
    ELSE LET least == CHOOSE x \in s : \A y \in s \ {x} : str_less(x, y)
         IN  <<least>> \o sorted(s \ {least})

\* the elements of a list
Elems(seq) == { seq[i] : i \in 1..Len(seq) }

\* dict.get(key, default)
get(d, key, default) == IF key \in DOMAIN d THEN d[key] ELSE default

\* d[key] = value
put(d, key, value) ==
    [ k \in DOMAIN d \cup {key} |-> IF k = key THEN value ELSE d[k] ]

----------------------------------------------------------------------------
(* The category labels the code writes, as str values *)

\* '2-player'
two_player == <<"2","-","p","l","a","y","e","r">>

\* '4-player'
four_player == <<"4","-","p","l","a","y","e","r">>

\* 'ai-exclusive'
ai_exclusive == <<"a","i","-","e","x","c","l","u","s","i","v","e">>

\* 'adventure'
adventure == <<"a","d","v","e","n","t","u","r","e">>

\* 'arcade'
arcade == <<"a","r","c","a","d","e">>

\* 'classic'
classic == <<"c","l","a","s","s","i","c">>

\* 'defense'
defense == <<"d","e","f","e","n","s","e">>

\* 'multiplayer'
multiplayer == <<"m","u","l","t","i","p","l","a","y","e","r">>

\* 'puzzle'
puzzle == <<"p","u","z","z","l","e">>

\* 'racing'
racing == <<"r","a","c","i","n","g">>

\* 'simulation'
simulation == <<"s","i","m","u","l","a","t","i","o","n">>

\* 'strategy'
strategy == <<"s","t","r","a","t","e","g","y">>

\* all_categories, the vocabulary written to data['meta']['categories']
all_categories ==
    << two_player, four_player, ai_exclusive, adventure, arcade,
       classic, defense, multiplayer, puzzle, racing,
       simulation, strategy >>

----------------------------------------------------------------------------
(* The keyword lists of the rules of get_game_categories *)

\* Strategy games (2-player board games)
strategy_words ==
    { <<"c","h","e","s","s">>,    \* 'chess'
      <<"c","h","e","c","k","e","r","s">>,    \* 'checkers'
      <<"g","o"," ">>,    \* 'go '
      <<"b","a","c","k","g","a","m","m","o","n">> }    \* 'backgammon'

\* Connect Four variants: either phrase
connect_four_words ==
    { <<"c","o","n","n","e","c","t"," ","f","o","u","r">>,    \* 'connect four'
      <<"c","o","n","n","e","c","t","-","f","o","u","r">> }    \* 'connect-four'

\* Tic-tac-toe variants: all three must occur
tic_tac_toe_words ==
    { <<"t","i","c">>,    \* 'tic'
      <<"t","a","c">>,    \* 'tac'
      <<"t","o","e">> }    \* 'toe'

\* Racing games
racing_words ==
    { <<"r","a","c","i","n","g">>,    \* 'racing'
      <<"r","a","c","e">>,    \* 'race'
      <<"c","i","r","c","u","i","t">>,    \* 'circuit'
      <<"s","p","e","e","d">>,    \* 'speed'
      <<"d","r","i","f","t">> }    \* 'drift'

\* Puzzle games
puzzle_words ==
    { <<"p","u","z","z","l","e">>,    \* 'puzzle'
      <<"m","a","t","c","h">>,    \* 'match'
      <<"t","e","t","r","i","s">>,    \* 'tetris'
      <<"b","l","o","c","k","s">>,    \* 'blocks'
      <<"c","r","y","s","t","a","l">>,    \* 'crystal'
      <<"g","e","m">>,    \* 'gem'
      <<"s","w","a","p">> }    \* 'swap'

\* Card games
card_words ==
    { <<"p","o","k","e","r">>,    \* 'poker'
      <<"c","a","r","d","s">>,    \* 'cards'
      <<"s","o","l","i","t","a","i","r","e">>,    \* 'solitaire'
      <<"b","l","a","c","k","j","a","c","k">> }    \* 'blackjack'

\* Arcade games
arcade_words ==
    { <<"b","l","a","s","t","e","r">>,    \* 'blaster'
      <<"a","s","t","e","r","o","i","d">>,    \* 'asteroid'
      <<"s","p","a","c","e">>,    \* 'space'
      <<"s","h","o","o","t","e","r">>,    \* 'shooter'
      <<"i","n","v","a","d","e","r">>,    \* 'invader'
      <<"b","r","e","a","k","o","u","t">>,    \* 'breakout'
      <<"p","o","n","g">> }    \* 'pong'

\* Tower Defense
defense_words ==
    { <<"t","o","w","e","r">>,    \* 'tower'
      <<"d","e","f","e","n","s","e">>,    \* 'defense'
      <<"d","e","f","e","n","d">>,    \* 'defend'
      <<"t","u","r","r","e","t">> }    \* 'turret'

\* AI-specific games
ai_words ==
    { <<"a","i"," ">>,    \* 'ai '
      <<"a","l","g","o","r","i","t","h","m">>,    \* 'algorithm'
      <<"n","e","u","r","a","l">>,    \* 'neural'
      <<"m","a","t","r","i","x">>,    \* 'matrix'
      <<"n","e","x","u","s">>,    \* 'nexus'
      <<"q","u","a","n","t","u","m">> }    \* 'quantum'

\* Multiplayer indicators
multiplayer_words ==
    { <<"n","e","t","w","o","r","k">>,    \* 'network'
      <<"o","n","l","i","n","e">>,    \* 'online'
      <<"m","u","l","t","i">>,    \* 'multi'
      <<"b","a","t","t","l","e">>,    \* 'battle'
      <<"v","e","r","s","u","s">>,    \* 'versus'
      <<"p","v","p">> }    \* 'pvp'

\* 'multi', which also adds 4-player
multi_word == <<"m","u","l","t","i">>

\* 2-player indicators
two_player_words ==
    { <<"v","s"," ">>,    \* 'vs '
      <<"v","e","r","s","u","s">>,    \* 'versus'
      <<"b","a","t","t","l","e">>,    \* 'battle'
      <<"d","u","e","l">> }    \* 'duel'

\* 'network', which blocks the 2-player indicators
network_word == <<"n","e","t","w","o","r","k">>

\* Adventure/RPG games
adventure_words ==
    { <<"q","u","e","s","t">>,    \* 'quest'
      <<"a","d","v","e","n","t","u","r","e">>,    \* 'adventure'
      <<"e","x","p","l","o","r","a","t","i","o","n">>,    \* 'exploration'
      <<"j","o","u","r","n","e","y">> }    \* 'journey'

\* Simulation games
simulation_words ==
    { <<"s","i","m","u","l","a","t","o","r">>,    \* 'simulator'
      <<"t","y","c","o","o","n">>,    \* 'tycoon'
      <<"m","a","n","a","g","e","m","e","n","t">>,    \* 'management'
      <<"b","u","i","l","d","e","r">> }    \* 'builder'

\* Classic games
classic_words ==
    { <<"c","l","a","s","s","i","c">>,    \* 'classic'
      <<"r","e","t","r","o">>,    \* 'retro'
      <<"v","i","n","t","a","g","e">>,    \* 'vintage'
      <<"o","l","d"," ","s","c","h","o","o","l">> }    \* 'old school'

\* Remove contradictions: titles that are specifically 2-player
contradiction_words ==
    { <<"c","h","e","s","s">>,    \* 'chess'
      <<"c","h","e","c","k","e","r","s">>,    \* 'checkers'
      <<"c","o","n","n","e","c","t"," ","f","o","u","r">>,    \* 'connect four'
      <<"t","i","c"," ","t","a","c"," ","t","o","e">> }    \* 'tic tac toe'

----------------------------------------------------------------------------
(* get_game_categories: the rules, in the order of the code.  Each rule    *)
(* maps the lower-cased title and the working set `categories` to the      *)
(* working set after the rule.                                             *)

\* Always include the current category as a starting point
seed_current_category(current_category, categories) ==
    IF current_category # <<>> THEN categories \cup {current_category} ELSE categories

\* a slip: the chess rule also discarding 'simulation', as its two neighbours do
strategy_games_discarding(title_lower, categories) ==
    IF any_in(strategy_words, title_lower)
    THEN (categories \cup {strategy, two_player, classic}) \ {simulation}
    ELSE categories

\* Strategy games (2-player board games)
strategy_games(title_lower, categories) ==
    IF any_in(strategy_words, title_lower)
    THEN categories \cup {strategy, two_player, classic}
    ELSE categories

\* the condition of the Connect Four rule
is_connect_four(title_lower) == any_in(connect_four_words, title_lower)

\* a slip: the Connect Four rule without its discard
connect_four_variants_keeping(title_lower, categories) ==
    IF is_connect_four(title_lower)
    THEN categories \cup {puzzle, two_player, strategy}
    ELSE categories

\* Connect Four variants
connect_four_variants(title_lower, categories) ==
    IF is_connect_four(title_lower)
    THEN (categories \cup {puzzle, two_player, strategy}) \ {simulation}
    ELSE categories

\* the condition of the Tic-tac-toe rule
is_tic_tac_toe(title_lower) == \A word \in tic_tac_toe_words : in(word, title_lower)

\* Tic-tac-toe variants
tic_tac_toe_variants(title_lower, categories) ==
    IF is_tic_tac_toe(title_lower)
    THEN (categories \cup {puzzle, two_player, classic}) \ {simulation}
    ELSE categories

\* Racing games
racing_games(title_lower, categories) ==
    IF any_in(racing_words, title_lower)
    THEN categories \cup {racing, arcade}
    ELSE categories

\* Puzzle games
puzzle_games(title_lower, categories) ==
    IF any_in(puzzle_words, title_lower)
    THEN categories \cup {puzzle}
    ELSE categories

\* a slip: the card rule adding a label of its own
card_games_own_label(title_lower, categories) ==
    IF any_in(card_words, title_lower)
    THEN categories \cup {classic, two_player, <<"c","a","r","d">>}
    ELSE categories

\* Card games
card_games(title_lower, categories) ==
    IF any_in(card_words, title_lower)
    THEN categories \cup {classic, two_player}
    ELSE categories

\* Arcade games
arcade_games(title_lower, categories) ==
    IF any_in(arcade_words, title_lower)
    THEN categories \cup {arcade, classic}
    ELSE categories

\* Tower Defense
tower_defense(title_lower, categories) ==
    IF any_in(defense_words, title_lower)
    THEN categories \cup {defense, strategy}
    ELSE categories

\* the condition of the AI rule
is_ai_game(title_lower) == any_in(ai_words, title_lower)

\* a slip: the AI rule adding 'ai-exclusive' in the AI-themed branch too
ai_specific_games_always_exclusive(title_lower, categories) ==
    IF is_ai_game(title_lower)
    THEN categories \cup {ai_exclusive, strategy}
    ELSE categories

\* a slip: the AI rule adding 'strategy' in the AI-themed branch only
ai_specific_games_exclusive_only(title_lower, categories) ==
    IF is_ai_game(title_lower)
    THEN IF ai_exclusive \in categories
         THEN categories \cup {ai_exclusive}
         ELSE categories \cup {strategy}
    ELSE categories

\* AI-specific games
ai_specific_games(title_lower, categories) ==
    IF is_ai_game(title_lower)
    THEN IF ai_exclusive \in categories
         THEN categories \cup {ai_exclusive, strategy}
         ELSE categories \cup {strategy}      \* AI-themed but not exclusive
    ELSE categories

\* Multiplayer indicators
multiplayer_indicators(title_lower, categories) ==
    IF any_in(multiplayer_words, title_lower)
    THEN IF in(multi_word, title_lower)
         THEN categories \cup {multiplayer, four_player}
         ELSE categories \cup {multiplayer}
    ELSE categories

\* 2-player indicators (but not multiplayer lobby games)
two_player_indicators(title_lower, categories) ==
    IF any_in(two_player_words, title_lower) /\ ~ in(network_word, title_lower)
    THEN categories \cup {two_player}
    ELSE categories

\* Adventure/RPG games
adventure_games(title_lower, categories) ==
    IF any_in(adventure_words, title_lower)
    THEN categories \cup {adventure}
    ELSE categories

\* the condition of the Simulation rule
is_simulation_game(title_lower) == any_in(simulation_words, title_lower)

\* Simulation games
simulation_games(title_lower, categories) ==
    IF is_simulation_game(title_lower)
    THEN categories \cup {simulation}
    ELSE categories

\* Classic games
classic_games(title_lower, categories) ==
    IF any_in(classic_words, title_lower)
    THEN categories \cup {classic}
    ELSE categories

\* the title names a game that is specifically 2-player
is_specifically_two_player(title_lower) == any_in(contradiction_words, title_lower)

\* a slip: contradiction resolution that forgets the discard
remove_contradictions_never(title_lower, categories) == categories

\* Remove contradictions
remove_contradictions(title_lower, categories) ==
    IF two_player \in categories /\ multiplayer \in categories
    THEN IF is_specifically_two_player(title_lower)
         THEN categories \ {multiplayer}
         ELSE categories
    ELSE categories

\* a slip: the fallback applied unconditionally
ensure_always_arcade(categories) == categories \cup {arcade}

\* Ensure at least one category
ensure_at_least_one(categories) ==
    IF categories = {} THEN {arcade} ELSE categories

\* positions in the trace of a call: the working set after the rule
AfterSeed == 1
AfterStrategy == 2
AfterConnectFour == 3
AfterTicTacToe == 4
AfterTowerDefense == 9
AfterAI == 10
AfterClassic == 15
AfterContradictions == 16
AfterFallback == 17

\* the working set `categories` after each of the 17 steps of one call
rule_trace(title, current_category) ==
    LET title_lower == lower(title)
        c1  == seed_current_category(current_category, {})
        c2  == strategy_games(title_lower, c1)
        c3  == connect_four_variants(title_lower, c2)
        c4  == tic_tac_toe_variants(title_lower, c3)
        c5  == racing_games(title_lower, c4)
        c6  == puzzle_games(title_lower, c5)
        c7  == card_games(title_lower, c6)
        c8  == arcade_games(title_lower, c7)
        c9  == tower_defense(title_lower, c8)
        c10 == ai_specific_games(title_lower, c9)
        c11 == multiplayer_indicators(title_lower, c10)
        c12 == two_player_indicators(title_lower, c11)
        c13 == adventure_games(title_lower, c12)
        c14 == simulation_games(title_lower, c13)
        c15 == classic_games(title_lower, c14)
        c16 == remove_contradictions(title_lower, c15)
        c17 == ensure_at_least_one(c16)
    IN  <<c1, c2, c3, c4, c5, c6, c7, c8, c9, c10, c11, c12, c13, c14, c15, c16, c17>>

\* a slip: the genre, when given, taken as a label
get_game_categories_reading_genre(title, current_category, genre, description) ==
    LET trace == rule_trace(title, current_category)
    IN  [ trace |-> trace,
          returned |-> sorted(trace[AfterFallback] \cup (IF genre # <<>> THEN {lower(genre)} ELSE {})) ]

\* one execution of get_game_categories(title, current_category, genre, description=""):
\* the working set after each step and the value returned.  genre and description
\* are accepted and never read
get_game_categories(title, current_category, genre, description) ==
    LET trace == rule_trace(title, current_category)
    IN  [ trace |-> trace, returned |-> sorted(trace[AfterFallback]) ]

----------------------------------------------------------------------------
(* The catalogs the script is run on *)

\* the words titles are made of
Words ==
    { <<"C","h","e","s","s">>,    \* 'Chess'
      <<"C","o","n","n","e","c","t"," ","F","o","u","r">>,    \* 'Connect Four'
      <<"C","o","n","n","e","c","t","-","F","o","u","r">>,    \* 'Connect-Four'
      <<"T","i","c"," ","T","a","c"," ","T","o","e">>,    \* 'Tic Tac Toe'
      <<"O","n","l","i","n","e"," ","M","u","l","t","i","p","l","a","y","e","r">>,    \* 'Online Multiplayer'
      <<"B","a","t","t","l","e">>,    \* 'Battle'
      <<"N","e","u","r","a","l"," ","N","e","t","w","o","r","k">>,    \* 'Neural Network'
      <<"S","i","m","u","l","a","t","o","r">>,    \* 'Simulator'
      <<"A","I">>,    \* 'AI'
      <<"G","o">>,    \* 'Go'
      <<"S","p","a","c","e"," ","R","a","c","e">>,    \* 'Space Race'
      <<"T","o","w","e","r"," ","Q","u","e","s","t">>,    \* 'Tower Quest'
      <<"R","e","t","r","o"," ","P","u","z","z","l","e"," ","C","a","r","d","s">>,    \* 'Retro Puzzle Cards'
      <<"W","i","d","g","e","t">> }    \* 'Widget'

\* ' '.join(words)
RECURSIVE join(_)
join(words) ==
    IF Len(words) = 0 THEN <<>>
    ELSE IF Len(words) = 1 THEN words[1]
    ELSE words[1] \o <<" ">> \o join(Tail(words))

\* the titles: up to MaxWords words separated by single spaces, '' included
Titles == { join(ws) : ws \in UNION { [1..n -> Words] : n \in 0..MaxWords } }

\* 'rhythm', a category of generate-complete-games.py that all_categories lacks
rhythm == <<"r","h","y","t","h","m">>

\* the `categories` list of generate-complete-games.py, written to meta.categories
generated_categories ==
    << strategy, arcade, puzzle, ai_exclusive, multiplayer, rhythm, simulation, adventure, classic, defense, racing >>

\* the values of a game's 'category' field before the first run
Categories == { <<>>, simulation, multiplayer, ai_exclusive, rhythm }

\* a 'genre' and a 'description' value
some_genre == <<"S","i","m","u","l","a","t","o","r">>
some_description == <<"O","n","l","i","n","e"," ","c","h","e","s","s"," ","b","a","t","t","l","e"," ","b","u","i","l","d","e","r",".">>

\* the game dicts with 'title' and, optionally, 'category'
Games ==
    { [title |-> ti] : ti \in Titles }
    \cup { [title |-> ti, category |-> ca] : ti \in Titles, ca \in Categories }

\* a few games with and without 'genre' and 'description'
SampleGames ==
    LET titles == { <<>>, <<"C","h","e","s","s"," ","O","n","l","i","n","e">>, <<"C","o","n","n","e","c","t"," ","F","o","u","r"," ","S","i","m","u","l","a","t","o","r">> }
        plain  == { [title |-> ti] : ti \in titles }
                  \cup { [title |-> ti, category |-> ca] : ti \in titles, ca \in {simulation, multiplayer} }
    IN  plain
        \cup { put(g, "genre", some_genre) : g \in plain }
        \cup { put(put(g, "genre", some_genre), "description", some_description) : g \in plain }

\* data['games'] before the first run: any one game, or two of the sample games
Catalogs ==
    { <<g>> : g \in Games } \cup { <<g, h>> : g \in SampleGames, h \in SampleGames }

----------------------------------------------------------------------------
(* update_games_with_categories *)

\* a slip: no default for a game without 'category'
call_for_no_default(game) ==
    LET old_category == get(game, "category", <<>>)
        genre        == get(game, "genre", <<>>)
        description  == get(game, "description", <<>>)
        execution    == get_game_categories(game.title, old_category, genre, description)
    IN  [ title            |-> game.title,
          current_category |-> old_category,
          genre            |-> genre,
          description      |-> description,
          trace            |-> execution.trace,
          new_categories   |-> execution.returned ]

\* the call of get_game_categories the loop makes for a game
call_for(game) ==
    LET old_category == get(game, "category", arcade)
        genre        == get(game, "genre", <<>>)
        description  == get(game, "description", <<>>)
        execution    == get_game_categories(game.title, old_category, genre, description)
    IN  [ title            |-> game.title,
          current_category |-> old_category,
          genre            |-> genre,
          description      |-> description,
          trace            |-> execution.trace,
          new_categories   |-> execution.returned ]

\* the body of the loop: the game with 'categories' and 'category' replaced
updated_game(game, new_categories) ==
    put(put(game, "categories", new_categories), "category", new_categories[1])

Init ==
    /\ \E games \in Catalogs :
          file = [ meta |-> [categories |-> generated_categories], games |-> games ]
    /\ loaded = <<>>
    /\ calls = <<>>
    /\ runs = 0

\* one run of the script: load, update every game, save
update_games_with_categories ==
    /\ runs < MaxRuns
    /\ LET data == file
           made == [ i \in 1..Len(data.games) |-> call_for(data.games[i]) ]
       IN  /\ loaded' = data.games
           /\ calls' = made
           /\ file' = [ meta  |-> put(data.meta, "categories", all_categories),
                        games |-> [ i \in 1..Len(data.games) |->
                                      updated_game(data.games[i], made[i].new_categories) ] ]
    /\ runs' = runs + 1

Next == update_games_with_categories

Spec == Init /\ [][Next]_vars

----------------------------------------------------------------------------
(* Properties *)

\* the calls made by the last run
Made == Elems(calls)

\* some keyword rule (steps 2 to 15) fires on the title
some_rule_fires(title) ==
    LET title_lower == lower(title)
    IN  \/ any_in(strategy_words, title_lower)
        \/ is_connect_four(title_lower)
        \/ is_tic_tac_toe(title_lower)
        \/ any_in(racing_words, title_lower)
        \/ any_in(puzzle_words, title_lower)
        \/ any_in(card_words, title_lower)
        \/ any_in(arcade_words, title_lower)
        \/ any_in(defense_words, title_lower)
        \/ is_ai_game(title_lower)
        \/ any_in(multiplayer_words, title_lower)
        \/ any_in(two_player_words, title_lower) /\ ~ in(network_word, title_lower)
        \/ any_in(adventure_words, title_lower)
        \/ is_simulation_game(title_lower)
        \/ any_in(classic_words, title_lower)

\* C1: every call returns at least one label; with an empty current_category and
\* no rule firing the result is exactly ['arcade'], and the fallback step adds
\* 'arcade' in no other case.
C1_NonEmptyAndFallback ==
    \A c \in Made :
        /\ Len(c.new_categories) >= 1
        /\ (c.current_category = <<>> /\ ~ some_rule_fires(c.title))
              => c.new_categories = <<arcade>>
        /\ (c.trace[AfterFallback] # c.trace[AfterContradictions])
              => (c.current_category = <<>> /\ ~ some_rule_fires(c.title))

\* a call with an empty current_category and a title no rule fires on came back ['arcade']
C1_Witness ==
    \E c \in Made :
        /\ c.current_category = <<>>
        /\ c.title # <<>>
        /\ ~ some_rule_fires(c.title)
        /\ c.trace[AfterContradictions] = {}
        /\ c.new_categories = <<arcade>>

\* C2: the returned sequence is strictly ascending in the order of str and holds
\* no label twice.
C2_SortedDistinct ==
    \A c \in Made :
        \A i, j \in 1..Len(c.new_categories) :
            i < j => /\ str_less(c.new_categories[i], c.new_categories[j])
                     /\ c.new_categories[i] # c.new_categories[j]

\* a call whose seed is also added by a rule, and two rules add the same label
C2_Witness ==
    \E c \in Made :
        /\ c.current_category = multiplayer
        /\ any_in(multiplayer_words, lower(c.title))
        /\ any_in(card_words, lower(c.title))
        /\ any_in(classic_words, lower(c.title))
        /\ Len(c.new_categories) >= 4
        /\ c.new_categories[1] = two_player
        /\ multiplayer \in Elems(c.new_categories)

\* C3: a non-empty current_category is in the result unless it is 'simulation' and
\* the Connect-Four or Tic-tac-toe rule fired, or it is 'multiplayer' and the
\* contradiction step discarded it; the chess rule keeps a seeded 'simulation'.
C3_SeedInclusion ==
    \A c \in Made :
        LET title_lower == lower(c.title)
            result      == Elems(c.new_categories)
        IN  /\ (c.current_category # <<>> /\ c.current_category \notin result)
                  => \/ /\ c.current_category = simulation
                        /\ is_connect_four(title_lower) \/ is_tic_tac_toe(title_lower)
                     \/ /\ c.current_category = multiplayer
                        /\ c.trace[AfterContradictions] # c.trace[AfterClassic]
            /\ ( /\ c.current_category = simulation
                 /\ any_in(strategy_words, title_lower)
                 /\ ~ is_connect_four(title_lower)
                 /\ ~ is_tic_tac_toe(title_lower) )
                  => simulation \in result

\* a chess title seeded with 'simulation' kept it, although no rule adds it
C3_Witness ==
    \E c \in Made :
        /\ c.current_category = simulation
        /\ in(<<"c","h","e","s","s">>, lower(c.title))
        /\ ~ is_simulation_game(lower(c.title))
        /\ simulation \in Elems(c.new_categories)
        /\ two_player \in Elems(c.new_categories)

\* C4: a title containing 'chess', 'checkers', 'connect four' or 'tic tac toe'
\* gets '2-player' and never 'multiplayer', whatever the seed and the multiplayer
\* keywords; for any other title the contradiction step removes nothing.
C4_StrictlyTwoPlayer ==
    \A c \in Made :
        IF is_specifically_two_player(lower(c.title))
        THEN /\ two_player \in Elems(c.new_categories)
             /\ multiplayer \notin Elems(c.new_categories)
        ELSE c.trace[AfterContradictions] = c.trace[AfterClassic]

\* a chess title with a multiplayer keyword, seeded 'multiplayer', lost the label
C4_Witness ==
    \E c \in Made :
        /\ c.current_category = multiplayer
        /\ in(<<"c","h","e","s","s">>, lower(c.title))
        /\ any_in(multiplayer_words, lower(c.title))
        /\ multiplayer \in c.trace[AfterClassic]
        /\ two_player \in Elems(c.new_categories)
        /\ multiplayer \notin Elems(c.new_categories)

\* C5 as stated: whenever the Connect-Four or the Tic-tac-toe rule fires, the
\* result does not contain 'simulation'.
C5_NoSimulation ==
    \A c \in Made :
        (is_connect_four(lower(c.title)) \/ is_tic_tac_toe(lower(c.title)))
            => simulation \notin Elems(c.new_categories)

\* C5, amended: whenever the Connect-Four or the Tic-tac-toe rule fires, the result
\* contains 'simulation' exactly when the Simulation rule (step 14) fires too: the
\* discard removes the seed only, the later rule adds the label back.
C5_NoSimulationUnlessRule ==
    \A c \in Made :
        (is_connect_four(lower(c.title)) \/ is_tic_tac_toe(lower(c.title)))
            => (simulation \in Elems(c.new_categories) <=> is_simulation_game(lower(c.title)))

\* a Connect Four title seeded with 'simulation' lost the seed
C5_Witness ==
    \E c \in Made :
        /\ c.current_category = simulation
        /\ is_connect_four(lower(c.title))
        /\ simulation \in c.trace[AfterSeed]
        /\ simulation \notin c.trace[AfterConnectFour]
        /\ simulation \notin Elems(c.new_categories)

\* C6: two calls that agree on title and current_category return the same
\* sequence, whatever their genre and description and wherever they come in the run.
C6_FunctionOfTitleAndCategory ==
    \A i, j \in 1..Len(calls) :
        (calls[i].title = calls[j].title /\ calls[i].current_category = calls[j].current_category)
            => calls[i].new_categories = calls[j].new_categories

\* two calls of one run agreed on title and current_category, differed in genre
\* and in description, and returned the same
C6_Witness ==
    \E i, j \in 1..Len(calls) :
        /\ i < j
        /\ calls[i].title = calls[j].title
        /\ calls[i].current_category = calls[j].current_category
        /\ calls[i].genre # calls[j].genre
        /\ calls[i].description # calls[j].description
        /\ calls[i].title # <<>>
        /\ calls[i].new_categories = calls[j].new_categories

\* C7: after a run every game has 'categories' equal to what get_game_categories
\* returns for its title and its old category ('arcade' when it had none), and
\* 'category' equal to the first, lexically smallest element of 'categories'.
C7_UpdatedFields ==
    runs >= 1 =>
        /\ Len(file.games) = Len(loaded)
        /\ \A i \in 1..Len(loaded) :
            LET old  == loaded[i]
                game == file.games[i]
                seed == IF "category" \in DOMAIN old THEN old.category ELSE arcade
                genre == IF "genre" \in DOMAIN old THEN old.genre ELSE <<>>
                description == IF "description" \in DOMAIN old THEN old.description ELSE <<>>
            IN  /\ game.title = old.title
                /\ game.categories =
                      get_game_categories(old.title, seed, genre, description).returned
                /\ Len(game.categories) >= 1
                /\ game.category = game.categories[1]
                /\ \A k \in 2..Len(game.categories) : str_less(game.category, game.categories[k])

\* a game without 'category' was updated with 'arcade' as its seed, and a rule
\* put a smaller label in front of it
C7_Witness ==
    /\ runs = 1
    /\ \E i \in 1..Len(loaded) :
          /\ "category" \notin DOMAIN loaded[i]
          /\ arcade \in Elems(file.games[i].categories)
          /\ Len(file.games[i].categories) >= 3
          /\ file.games[i].category = two_player

\* C8 as stated: the AI rule never finds 'ai-exclusive' in the working set, so
\* its branch for exclusive games is never taken.
C8_ExclusiveBranchDead ==
    \A c \in Made :
        ~ (is_ai_game(lower(c.title)) /\ ai_exclusive \in c.trace[AfterTowerDefense])

\* C8, amended: when the AI rule is reached the working set contains
\* 'ai-exclusive' exactly when current_category is 'ai-exclusive' (no earlier rule
\* adds or removes it), and in either branch the rule adds nothing but 'strategy'.
C8_ExclusiveOnlyFromSeed ==
    \A c \in Made :
        /\ ai_exclusive \in c.trace[AfterTowerDefense] <=> c.current_category = ai_exclusive
        /\ c.trace[AfterTowerDefense] \subseteq c.trace[AfterAI]
        /\ c.trace[AfterAI] \ c.trace[AfterTowerDefense] \subseteq {strategy}

\* an AI title seeded 'ai-exclusive' took the branch for exclusive games, which
\* added 'strategy'
C8_Witness ==
    \E c \in Made :
        /\ c.current_category = ai_exclusive
        /\ is_ai_game(lower(c.title))
        /\ ai_exclusive \in c.trace[AfterTowerDefense]
        /\ strategy \notin c.trace[AfterTowerDefense]
        /\ c.trace[AfterAI] = c.trace[AfterTowerDefense] \cup {strategy}

\* C9: every label returned is current_category or one of the twelve labels of
\* all_categories, and 'ai-exclusive' is returned only if it was current_category.
C9_Vocabulary ==
    \A c \in Made :
        \A label \in Elems(c.new_categories) :
            /\ label = c.current_category \/ label \in Elems(all_categories)
            /\ label = ai_exclusive => c.current_category = ai_exclusive

\* a call seeded with a label outside the vocabulary returned it among labels of
\* the vocabulary
C9_Witness ==
    \E c \in Made :
        /\ c.current_category = rhythm
        /\ rhythm \notin Elems(all_categories)
        /\ rhythm \in Elems(c.new_categories)
        /\ Len(c.new_categories) >= 3

\* C10: run again on its own output, the script only ever shrinks 'categories',
\* leaves 'category' as the first run set it, and changes nothing from the third
\* run on.
C10_RerunConverges ==
    /\ runs >= 2 =>
          \A i \in 1..Len(loaded) :
              /\ Elems(file.games[i].categories) \subseteq Elems(loaded[i].categories)
              /\ file.games[i].category = loaded[i].category
    /\ runs >= 3 =>
          \A i \in 1..Len(loaded) : file.games[i].categories = loaded[i].categories

\* the second run dropped a label the first run had kept from the old category
C10_Witness ==
    /\ runs = 2
    /\ \E i \in 1..Len(loaded) :
          /\ Elems(file.games[i].categories) # Elems(loaded[i].categories)
          /\ file.games[i].category = loaded[i].category

=============================================================================
